---------------------------- MODULE Spec2Model ----------------------------
(***************************************************************************)
(* Model of daily_tao_to_discord.py: the module-level configuration, the   *)
(* DailyTaoReporter class (constructor, fetch_earnings, build_message,     *)
(* post_to_discord, run) and main().                                       *)
(*                                                                         *)
(* One process, strictly sequential.  The two kinds of network calls are   *)
(* the only inputs after start-up; their results are drawn from bounded    *)
(* sets.  Python values are modelled as follows:                           *)
(*   - None is the string NoneVal where a str is expected;                 *)
(*   - a name that is not (yet) bound to an int is <<>>, a bound one <<n>>;*)
(*   - a str that the code inspects character by character (the account    *)
(*     list) is a sequence of one-character strings;                       *)
(*   - a JSON value is a tagged record [t |-> type, v |-> value];          *)
(*   - a float amount of TAO is the integer number of base units (1e-9     *)
(*     TAO) it was computed from, and a ".6f" rendering is the pair        *)
(*     [whole, frac] of the digits before and after the decimal point;     *)
(*   - a message is the sequence of its lines ("\n".join), each line a     *)
(*     record naming the fixed text and carrying the interpolated values;  *)
(*   - a calendar date is its offset in days from today (UTC).             *)
(***************************************************************************)
EXTENDS Integers, Sequences, FiniteSets, TLC

VARIABLES
    pc,                  \* where the process is
    DISCORD_WEBHOOK_URL, \* module globals, lines 24-41
    TAOSTATS_API_KEY,
    MINER_ADDRESSES,
    LOOKBACK_DAYS,
    idx,                 \* position of the for loop of fetch_earnings (1-based)
    earnings,            \* fetch_earnings' local list
    response,            \* what the latest read request produced
    run_earnings,        \* run's local `earnings`: <<>> unbound, <<list>> bound
    exc,                 \* the exception caught by run's first except clause
    message,             \* run's local `message`
    exit_code,           \* <<>> while running, <<code>> once the process ended
    requests,            \* history: coldkey of every read request, in order
    handled,             \* history: how the loop left each iteration
    posts                \* history: every webhook POST, content and outcome

vars == <<pc, DISCORD_WEBHOOK_URL, TAOSTATS_API_KEY, MINER_ADDRESSES,
          LOOKBACK_DAYS, idx, earnings, response, run_earnings, exc, message,
          exit_code, requests, handled, posts>>

-----------------------------------------------------------------------------
(* Bounds of the model *)

\* longest comma-separated MINER_ADDRESSES value (number of fields)
MaxAccounts == 3

-----------------------------------------------------------------------------
(* Python values *)

NoneVal == "None"

\* bool(x) of an Optional[str]
StrTruthy(s) == s # NoneVal /\ s # ""

\* str.strip() on a sequence of characters
RECURSIVE LStrip(_)
LStrip(s) == IF s # <<>> /\ Head(s) = " " THEN LStrip(Tail(s)) ELSE s

RECURSIVE RStrip(_)
RStrip(s) ==
    IF s # <<>> /\ s[Len(s)] = " " THEN RStrip(SubSeq(s, 1, Len(s) - 1)) ELSE s

Strip(s) == RStrip(LStrip(s))

\* JSON values as json.load returns them
JNull == [t |-> "null"]
JInt(n) == [t |-> "int", v |-> n]
\* an integer literal of more than 309 digits: an int no float can hold
JBigInt == [t |-> "bigint"]
JStr(s) == [t |-> "str", v |-> s]
JArr(s) == [t |-> "arr", v |-> s]
JObj(f) == [t |-> "obj", v |-> f]

\* bool(x) of a JSON value
Truthy(x) ==
    CASE x.t = "null" -> FALSE
      [] x.t = "int" -> x.v # 0
      [] x.t = "bigint" -> TRUE
      [] x.t = "str" -> x.v # ""
      [] x.t = "arr" -> x.v # <<>>
      [] x.t = "obj" -> DOMAIN x.v # {}

\* what an expression evaluates to: a value, or an exception raised
Value(x) == [raised |-> FALSE, value |-> x]
Raise(type, args) == [raised |-> TRUE, exc |-> [type |-> type, args |-> args]]

\* a variant of Get that answers None for what is no dict
Get_Lenient(x, key) ==
    IF x.t = "obj"
    THEN Value(IF key \in DOMAIN x.v THEN x.v[key] ELSE JNull)
    ELSE Value(JNull)

\* x.get(key): dict.get, or the AttributeError of any other type
Get(x, key) ==
    IF x.t = "obj"
    THEN Value(IF key \in DOMAIN x.v THEN x.v[key] ELSE JNull)
    ELSE Raise("AttributeError", <<x.t, " object has no attribute 'get'">>)

\* x[0] of a truthy value; the first character of a str is again a str
Index0(x) ==
    CASE x.t = "arr" -> Value(x.v[1])
      [] x.t = "obj" -> Raise("KeyError", <<"0">>)
      [] x.t = "str" -> Value(JStr(x.v))
      [] OTHER -> Raise("TypeError", <<x.t, " object is not subscriptable">>)

\* the decimal strings float() accepts, with the number they denote
NumericStrings == [s \in {"7"} |-> 7]

\* float(x), in base units
Float(x) ==
    CASE x.t = "int" -> Value(x.v)
      [] x.t = "bigint" ->
           Raise("OverflowError", <<"int too large to convert to float">>)
      [] x.t = "str" ->
           IF x.v \in DOMAIN NumericStrings
           THEN Value(NumericStrings[x.v])
           ELSE Raise("ValueError", <<"could not convert string to float: ", x.v>>)
      [] OTHER ->
           Raise("TypeError",
                 <<"float() argument must be a string or a real number, not ", x.t>>)


-----------------------------------------------------------------------------
(* Module configuration, lines 24-41 *)

\* os.environ.get("DISCORD_WEBHOOK_URL"): unset, empty, or a URL
WebhookEnv == {NoneVal, "", "https://discord.example/webhook"}

\* os.environ.get("TAOSTATS_API_KEY")
ApiKeyEnv == {NoneVal, "", "api-key"}

\* the comma-separated fields of the MINER_ADDRESSES value; unset is the
\* default "", whose split(",") is the single empty field
AddressFields == {<<>>, <<" ">>, <<"a">>, <<" ", "b", " ">>}

AddressEnv ==
    UNION {[1..n -> AddressFields] : n \in 1..MaxAccounts}

\* os.environ.get("TAO_LOOKBACK_DAYS", "1")
LookbackEnv == {NoneVal, "1", "2", "soon"}

\* the strings int() accepts, with the number they denote
IntStrings == [s \in {"1", "2"} |-> IF s = "1" THEN 1 ELSE 2]

\* int(x) of a str
Int_(s) ==
    IF s \in DOMAIN IntStrings
    THEN Value(IntStrings[s])
    ELSE Raise("ValueError", <<"invalid literal for int() with base 10: ", s>>)

\* [addr.strip() for addr in fields if addr.strip()]
RECURSIVE ParseAddresses(_)
ParseAddresses(fields) ==
    IF fields = <<>> THEN <<>>
    ELSE IF Strip(Head(fields)) # <<>>
         THEN <<Strip(Head(fields))>> \o ParseAddresses(Tail(fields))
         ELSE ParseAddresses(Tail(fields))

TAO_NETWORK == "finney"

-----------------------------------------------------------------------------
(* Exceptions *)

NoExc == [type |-> "none", args |-> <<>>]

\* str(exc)
ExcStr(e) == e.args

-----------------------------------------------------------------------------
(* Read requests and their responses *)

\* what urlopen + json.load can do for one read request
TransportErrors == {"HTTPError", "URLError", "timeout"}

\* the income values the accounting API reports, in base units
Incomes == {1499, 2600}

Row(income) == JObj([income |-> income])

Bodies ==
    {[json |-> FALSE]}                         \* not parseable as JSON
    \cup {[json |-> TRUE, value |-> v] : v \in
           {JArr(<<>>), JNull}                 \* JSON, but no object
           \cup {JObj(<<>>)}                   \* no data field
           \cup {JObj([data |-> d]) : d \in
                  {JNull, JArr(<<>>)}          \* no data rows
                  \cup {Row(JInt(1499))}       \* an object where the array should be
                  \cup {JArr(<<JInt(7)>>)}     \* first element no object
                  \cup {JArr(<<JObj(<<>>)>>)}  \* first row without income
                  \cup {JArr(<<Row(i)>>) : i \in
                         {JNull, JStr("n/a"), JArr(<<>>), JBigInt, JStr("7")}
                         \cup {JInt(n) : n \in Incomes}}
                  \cup {JArr(<<Row(JInt(1499)), Row(JInt(2600))>>)}}}

Responses ==
    {[transport |-> e] : e \in TransportErrors}
    \cup {[transport |-> "ok", body |-> b] : b \in Bodies}

NoResponse == [transport |-> "none"]


-----------------------------------------------------------------------------
(* fetch_earnings, lines 87-131 *)

\* a variant of Urlopen that treats a failed connection or a timeout as an
\* empty answer
Urlopen_SwallowTransport(coldkey, resp) ==
    CASE resp.transport = "HTTPError" ->
           Raise("RuntimeError",
                 <<"Failed to fetch earnings for ", coldkey, ": ", "HTTP Error">>)
      [] resp.transport \in {"URLError", "timeout"} -> Value(JObj(<<>>))
      [] resp.transport = "ok" ->
           IF resp.body.json
           THEN Value(resp.body.value)
           ELSE Raise("JSONDecodeError", <<"Expecting value">>)

\* lines 105-109: urlopen and json.load; only HTTPError is caught (and
\* re-raised as RuntimeError), every other exception leaves as it is
Urlopen(coldkey, resp) ==
    CASE resp.transport = "HTTPError" ->
           Raise("RuntimeError",
                 <<"Failed to fetch earnings for ", coldkey, ": ", "HTTP Error">>)
      [] resp.transport = "URLError" ->
           Raise("URLError", <<"<urlopen error>">>)
      [] resp.transport = "timeout" ->
           Raise("TimeoutError", <<"timed out">>)
      [] resp.transport = "ok" ->
           IF resp.body.json
           THEN Value(resp.body.value)
           ELSE Raise("JSONDecodeError", <<"Expecting value">>)

\* a variant of Convert whose except clause names TypeError alone
Convert_OnlyTypeError(income_raw) ==
    LET income_tao == Float(income_raw) IN
    IF income_tao.raised
    THEN IF income_tao.exc.type \in {"TypeError"}
         THEN [kind |-> "continue"]
         ELSE [kind |-> "raise", exc |-> income_tao.exc]
    ELSE [kind |-> "append", amount_tao |-> income_tao.value]

\* lines 124-129: the conversion, whose TypeError and ValueError mean
\* "continue"; amounts stay in base units
Convert(income_raw) ==
    LET income_tao == Float(income_raw) IN
    IF income_tao.raised
    THEN IF income_tao.exc.type \in {"TypeError", "ValueError"}
         THEN [kind |-> "continue"]
         ELSE [kind |-> "raise", exc |-> income_tao.exc]
    ELSE [kind |-> "append", amount_tao |-> income_tao.value]

\* lines 113-129, given the payload: the amount to append, "continue", or
\* the exception that leaves the loop
Extract(payload) ==
    LET got == Get(payload, "data") IN
    IF got.raised THEN [kind |-> "raise", exc |-> got.exc]
    ELSE
    LET data == IF Truthy(got.value) THEN got.value ELSE JArr(<<>>) IN
    IF ~Truthy(data) THEN [kind |-> "continue"]
    ELSE
    LET record == Index0(data) IN
    IF record.raised THEN [kind |-> "raise", exc |-> record.exc]
    ELSE
    LET income_raw == Get(record.value, "income") IN
    IF income_raw.raised THEN [kind |-> "raise", exc |-> income_raw.exc]
    ELSE IF income_raw.value = JNull THEN [kind |-> "continue"]
    ELSE Convert(income_raw.value)

\* one iteration of the for loop, lines 92-129
Iteration(coldkey, resp) ==
    LET payload == Urlopen(coldkey, resp) IN
    IF payload.raised
    THEN [kind |-> "raise", exc |-> payload.exc]
    ELSE Extract(payload.value)

MinerEarning(coldkey, amount_tao) ==
    [coldkey |-> coldkey, amount_tao |-> amount_tao]

-----------------------------------------------------------------------------
(* build_message, lines 135-164 *)

\* base units per TAO (line 125) and digits after the point (lines 159, 162)
PLANCK_PER_TAO == 1000000000
DECIMALS == 6

\* f"{x:.6f}" of a non-negative amount x: the nearest multiple of 1e-6, a tie
\* going to the even one; no amount or total of this model is a tie
Fmt6(n) ==
    LET scale == 10 ^ DECIMALS
        unit == PLANCK_PER_TAO \div scale
        q == n \div unit
        r == n % unit
        up == 2 * r > unit \/ (2 * r = unit /\ q % 2 = 1)
        m == IF up THEN q + 1 ELSE q
    IN [whole |-> m \div scale, frac |-> m % scale]

\* _date_range, lines 74-85: (start_date, end_date) as offsets from today
DateRange(lookback) == <<0 - lookback, 0>>

\* lines 138-141
Header(lookback) ==
    IF lookback = 1
    THEN [line |-> "header", title |-> "Daily TAO Earnings",
          dates |-> <<DateRange(lookback)[2]>>]
    ELSE [line |-> "header", title |-> "TAO Earnings",
          dates |-> DateRange(lookback)]

NetworkLine == [line |-> "network", network |-> TAO_NETWORK]
BlankLine == [line |-> "blank"]
NoDataLine == [line |-> "nodata"]

BulletLine(entry) ==
    [line |-> "bullet", coldkey |-> entry.coldkey,
     amount |-> Fmt6(entry.amount_tao)]

TotalLine(total, count) ==
    [line |-> "total", amount |-> Fmt6(total), count |-> count]

\* a variant of Accumulate that adds up the amounts as displayed
RECURSIVE Accumulate_RoundsFirst(_, _, _)
Accumulate_RoundsFirst(es, t, ls) ==
    IF es = <<>> THEN <<t, ls>>
    ELSE LET d == Fmt6(Head(es).amount_tao) IN
         Accumulate_RoundsFirst(
             Tail(es),
             t + (d.whole * (10 ^ DECIMALS) + d.frac) * (PLANCK_PER_TAO \div (10 ^ DECIMALS)),
             Append(ls, BulletLine(Head(es))))

\* the for loop of lines 156-159: <<total, bulleted lines>> after the
\* entries of es, started from total t and lines ls
RECURSIVE Accumulate(_, _, _)
Accumulate(es, t, ls) ==
    IF es = <<>> THEN <<t, ls>>
    ELSE Accumulate(Tail(es), t + Head(es).amount_tao,
                    Append(ls, BulletLine(Head(es))))

\* a variant of build_message without the branch for no records
build_message_AlwaysTotal(es, lookback) ==
    LET acc == Accumulate(es, 0, <<Header(lookback), NetworkLine, BlankLine>>)
    IN acc[2] \o <<BlankLine, TotalLine(acc[1], Len(es))>>

build_message(es, lookback) ==
    IF es = <<>>
    THEN <<Header(lookback), NetworkLine, NoDataLine>>
    ELSE LET acc == Accumulate(es, 0, <<Header(lookback), NetworkLine, BlankLine>>)
         IN acc[2] \o <<BlankLine, TotalLine(acc[1], Len(es))>>

\* lines 190-193
FallbackMessage(e) ==
    <<[line |-> "warning"], [line |-> "reason", text |-> ExcStr(e)]>>

-----------------------------------------------------------------------------
(* post_to_discord, lines 166-181 *)

\* what urlopen can do for the webhook POST
PostOutcomes == {"ok", "HTTPError", "URLError", "timeout"}

\* the exception post_to_discord leaves with, or NoExc
post_to_discord(outcome) ==
    CASE outcome = "ok" -> NoExc
      [] outcome = "HTTPError" ->
           [type |-> "RuntimeError",
            args |-> <<"Failed to send Discord message: ", "HTTP Error">>]
      [] outcome = "URLError" -> [type |-> "URLError", args |-> <<"<urlopen error>">>]
      [] outcome = "timeout" -> [type |-> "TimeoutError", args |-> <<"timed out">>]


-----------------------------------------------------------------------------
(* The process *)

Init ==
    /\ pc = "load"
    /\ DISCORD_WEBHOOK_URL = NoneVal
    /\ TAOSTATS_API_KEY = NoneVal
    /\ MINER_ADDRESSES = <<>>
    /\ LOOKBACK_DAYS = <<>>
    /\ idx = 1
    /\ earnings = <<>>
    /\ response = NoResponse
    /\ run_earnings = <<>>
    /\ exc = NoExc
    /\ message = <<>>
    /\ exit_code = <<>>
    /\ requests = <<>>
    /\ handled = <<>>
    /\ posts = <<>>

\* lines 24-41 run when the module is loaded; int() of line 38 is the one
\* statement that can raise, and nothing catches it
Load ==
    /\ pc = "load"
    /\ \E w \in WebhookEnv, k \in ApiKeyEnv, a \in AddressEnv, l \in LookbackEnv :
         LET days == Int_(IF l = NoneVal THEN "1" ELSE l) IN
         /\ DISCORD_WEBHOOK_URL' = w
         /\ TAOSTATS_API_KEY' = k
         /\ MINER_ADDRESSES' = ParseAddresses(a)
         /\ IF days.raised
            THEN /\ LOOKBACK_DAYS' = <<>>
                 /\ pc' = "CRASHED"
                 /\ exit_code' = <<1>>
            ELSE /\ LOOKBACK_DAYS' = <<days.value>>
                 /\ pc' = "main"
                 /\ exit_code' = exit_code
    /\ UNCHANGED <<idx, earnings, response, run_earnings, exc, message,
                   requests, handled, posts>>

\* a variant of InitRaises without the check of the API credential
InitRaises_NoKeyCheck(url, key, addresses) ==
    \/ ~StrTruthy(url)
    \/ addresses = <<>>

\* __init__, lines 51-57: whether it raises RuntimeError
InitRaises(url, key, addresses) ==
    \/ ~StrTruthy(url)
    \/ ~StrTruthy(key)
    \/ addresses = <<>>

\* main, line 205, up to the call of run: nothing catches what __init__ raises
Construct ==
    /\ pc = "main"
    /\ IF InitRaises(DISCORD_WEBHOOK_URL, TAOSTATS_API_KEY, MINER_ADDRESSES)
       THEN /\ pc' = "CRASHED"
            /\ exit_code' = <<1>>
       ELSE /\ pc' = "FETCHING"
            /\ exit_code' = exit_code
    /\ UNCHANGED <<DISCORD_WEBHOOK_URL, TAOSTATS_API_KEY, MINER_ADDRESSES,
                   LOOKBACK_DAYS, idx, earnings, response, run_earnings, exc,
                   message, requests, handled, posts>>

\* a variant of AppendEarning that keeps one record per coldkey
AppendEarning_Dedup(es, coldkey, amount_tao) ==
    IF \E i \in DOMAIN es : es[i].coldkey = coldkey
    THEN es
    ELSE Append(es, MinerEarning(coldkey, amount_tao))

\* line 129
AppendEarning(es, coldkey, amount_tao) ==
    Append(es, MinerEarning(coldkey, amount_tao))

\* one iteration of the loop of fetch_earnings; an exception leaves
\* fetch_earnings and is caught at line 189
FetchOne ==
    /\ pc = "FETCHING"
    /\ idx <= Len(MINER_ADDRESSES)
    /\ \E resp \in Responses :
         LET coldkey == MINER_ADDRESSES[idx]
             out == Iteration(coldkey, resp)
         IN /\ requests' = Append(requests, coldkey)
            /\ response' = resp
            /\ handled' = Append(handled, out.kind)
            /\ CASE out.kind = "raise" ->
                      /\ exc' = out.exc
                      /\ pc' = "FALLBACK"
                      /\ UNCHANGED <<idx, earnings>>
                 [] out.kind = "continue" ->
                      /\ idx' = idx + 1
                      /\ UNCHANGED <<pc, exc, earnings>>
                 [] out.kind = "append" ->
                      /\ earnings' = AppendEarning(earnings, coldkey, out.amount_tao)
                      /\ idx' = idx + 1
                      /\ UNCHANGED <<pc, exc>>
    /\ UNCHANGED <<DISCORD_WEBHOOK_URL, TAOSTATS_API_KEY, MINER_ADDRESSES,
                   LOOKBACK_DAYS, run_earnings, message, exit_code, posts>>

\* line 131 and the assignment of line 187
FetchReturn ==
    /\ pc = "FETCHING"
    /\ idx > Len(MINER_ADDRESSES)
    /\ run_earnings' = <<earnings>>
    /\ pc' = "FORMATTING"
    /\ UNCHANGED <<DISCORD_WEBHOOK_URL, TAOSTATS_API_KEY, MINER_ADDRESSES,
                   LOOKBACK_DAYS, idx, earnings, response, exc, message,
                   exit_code, requests, handled, posts>>

\* line 188
Format ==
    /\ pc = "FORMATTING"
    /\ message' = build_message(run_earnings[1], LOOKBACK_DAYS[1])
    /\ pc' = "NOTIFYING"
    /\ UNCHANGED <<DISCORD_WEBHOOK_URL, TAOSTATS_API_KEY, MINER_ADDRESSES,
                   LOOKBACK_DAYS, idx, earnings, response, run_earnings, exc,
                   exit_code, requests, handled, posts>>

\* a variant of Fallback that reports what the loop had collected
Fallback_PartialReport ==
    /\ pc = "FALLBACK"
    /\ message' = build_message(earnings, LOOKBACK_DAYS[1])
    /\ pc' = "NOTIFYING"
    /\ UNCHANGED <<DISCORD_WEBHOOK_URL, TAOSTATS_API_KEY, MINER_ADDRESSES,
                   LOOKBACK_DAYS, idx, earnings, response, run_earnings, exc,
                   exit_code, requests, handled, posts>>

\* lines 189-193
Fallback ==
    /\ pc = "FALLBACK"
    /\ message' = FallbackMessage(exc)
    /\ pc' = "NOTIFYING"
    /\ UNCHANGED <<DISCORD_WEBHOOK_URL, TAOSTATS_API_KEY, MINER_ADDRESSES,
                   LOOKBACK_DAYS, idx, earnings, response, run_earnings, exc,
                   exit_code, requests, handled, posts>>

\* a variant of RunReturn whose except clause names RuntimeError alone
RunReturn_OnlyWrapped(post_exc) == IF post_exc.type = "RuntimeError" THEN 1 ELSE 0

\* lines 195-201: what run returns, given how post_to_discord left
RunReturn(post_exc) == IF post_exc # NoExc THEN 1 ELSE 0

\* a variant of Notify that posts once more after a failed POST
Notify_Retry ==
    /\ pc = "NOTIFYING"
    /\ \E outcome \in PostOutcomes :
         /\ posts' = Append(posts, [content |-> message, outcome |-> outcome])
         /\ exit_code' = <<RunReturn(post_to_discord(outcome))>>
         /\ pc' = IF outcome # "ok" /\ posts = <<>> THEN "NOTIFYING" ELSE "DONE"
    /\ UNCHANGED <<DISCORD_WEBHOOK_URL, TAOSTATS_API_KEY, MINER_ADDRESSES,
                   LOOKBACK_DAYS, idx, earnings, response, run_earnings, exc,
                   message, requests, handled>>

\* lines 195-201 and sys.exit of line 205
Notify ==
    /\ pc = "NOTIFYING"
    /\ \E outcome \in PostOutcomes :
         /\ posts' = Append(posts, [content |-> message, outcome |-> outcome])
         /\ exit_code' = <<RunReturn(post_to_discord(outcome))>>
    /\ pc' = "DONE"
    /\ UNCHANGED <<DISCORD_WEBHOOK_URL, TAOSTATS_API_KEY, MINER_ADDRESSES,
                   LOOKBACK_DAYS, idx, earnings, response, run_earnings, exc,
                   message, requests, handled>>

Next ==
    \/ Load
    \/ Construct
    \/ FetchOne
    \/ FetchReturn
    \/ Format
    \/ Fallback
    \/ Notify

Spec == Init /\ [][Next]_vars

\* the process is sequential and every call is bounded by its timeout: a
\* step that can be taken is taken
FairSpec == Spec /\ WF_vars(Next)


-----------------------------------------------------------------------------
(* Vocabulary of the properties *)

Ended == pc \in {"DONE", "CRASHED"}

\* the fetch loop left at least one iteration by an exception
FetchRaised == \E i \in DOMAIN handled : handled[i] = "raise"

\* the fallback message: the warning prefix, then the reason
IsFallback(m) ==
    /\ Len(m) = 2
    /\ m[1].line = "warning"
    /\ m[2].line = "reason"

HasLine(m, kind) == \E i \in DOMAIN m : m[i].line = kind

\* a step that issues a read request
ReadStep == Len(requests') = Len(requests) + 1

\* an income value float() rejects as no number
NonNumeric(x) ==
    \/ x.t \in {"arr", "obj"}
    \/ x.t = "str" /\ x.v \notin DOMAIN NumericStrings

\* a response that arrived, is a JSON object, and has no data rows or no
\* usable income in its first row
SkipShape(resp) ==
    /\ resp.transport = "ok"
    /\ resp.body.json
    /\ resp.body.value.t = "obj"
    /\ LET o == resp.body.value.v IN
       \/ "data" \notin DOMAIN o
       \/ o.data.t = "null"
       \/ o.data.t = "arr" /\ o.data.v = <<>>
       \/ /\ o.data.t = "arr"
          /\ o.data.v # <<>>
          /\ o.data.v[1].t = "obj"
          /\ LET row == o.data.v[1].v IN
             \/ "income" \notin DOMAIN row
             \/ row.income.t = "null"
             \/ NonNumeric(row.income)

\* a response that arrived with a body that is no JSON, no JSON object, or
\* whose data array starts with something that is no object
InvalidBody(resp) ==
    /\ resp.transport = "ok"
    /\ \/ ~resp.body.json
       \/ resp.body.value.t # "obj"
       \/ LET o == resp.body.value.v IN
          /\ "data" \in DOMAIN o
          /\ o.data.t = "arr"
          /\ o.data.v # <<>>
          /\ o.data.v[1].t # "obj"

\* the elements of s at the positions where keep holds
RECURSIVE KeepAt(_, _)
KeepAt(s, keep) ==
    IF s = <<>> \/ keep = <<>> THEN <<>>
    ELSE (IF Head(keep) THEN <<Head(s)>> ELSE <<>>) \o KeepAt(Tail(s), Tail(keep))

RECURSIVE SumAmounts(_)
SumAmounts(es) ==
    IF es = <<>> THEN 0
    ELSE es[Len(es)].amount_tao + SumAmounts(SubSeq(es, 1, Len(es) - 1))

\* a rendering d shows n base units to 6 decimal places: d has six digits
\* after the point and is a multiple of 1e-6 nearest to n
ShowsTo6(d, n) ==
    LET shown == (d.whole * 1000000 + d.frac) * 1000 IN
    /\ d.whole >= 0
    /\ d.frac \in 0..999999
    /\ shown - n <= 500
    /\ n - shown <= 500


-----------------------------------------------------------------------------
(* The claims *)

\* C1: once run has returned, exactly one POST was made, and run returned 0
\* if and only if that POST completed without raising, 1 if and only if it
\* raised (HTTP error, connection failure or timeout), whatever fetch and
\* format did before.
C1_ReturnCodeIsDelivery ==
    pc = "DONE" =>
        /\ Len(posts) = 1
        /\ exit_code \in {<<0>>, <<1>>}
        /\ exit_code = <<0>> <=> posts[1].outcome = "ok"
        /\ exit_code = <<1>> <=> posts[1].outcome \in {"HTTPError", "URLError", "timeout"}

\* a run whose fetch failed, whose fallback message was delivered, and which
\* returned 0
C1_Witness ==
    /\ pc = "DONE"
    /\ FetchRaised
    /\ IsFallback(posts[1].content)
    /\ posts[1].outcome = "ok"
    /\ exit_code = <<0>>

\* C2: the message handed to post_to_discord is the fallback message, whose
\* reason is the description of the exception raised, if and only if the
\* fetch raised; otherwise it is build_message of the list fetch_earnings
\* returned.  After a fetch error no report line of a collected record is
\* posted.
C2_FallbackIffRaised ==
    posts # <<>> =>
        LET m == posts[1].content IN
        /\ IsFallback(m) <=> FetchRaised
        /\ FetchRaised =>
             /\ m[2].text = ExcStr(Iteration(requests[Len(requests)], response).exc)
             /\ m[2].text # <<>>
             /\ ~HasLine(m, "bullet")
             /\ ~HasLine(m, "total")
        /\ ~FetchRaised =>
             /\ run_earnings = <<earnings>>
             /\ m = build_message(earnings, LOOKBACK_DAYS[1])

\* a fallback message posted although a record had been collected before the
\* failing request
C2_Witness ==
    /\ posts # <<>>
    /\ FetchRaised
    /\ earnings # <<>>
    /\ IsFallback(posts[1].content)

\* C3: when the read request of position i fails with an HTTP error, a
\* connection failure or a timeout, fetch_earnings raises: run's first except
\* clause has the exception, nothing was returned to run, the records
\* collected so far appear in no message, and from then on no read request
\* is issued.
C3_FailFast ==
    /\ [](response.transport \in TransportErrors =>
            /\ handled[Len(handled)] = "raise"
            /\ pc \in {"FALLBACK", "NOTIFYING", "DONE"}
            /\ exc # NoExc
            /\ run_earnings = <<>>
            /\ Len(requests) = idx
            /\ ~HasLine(message, "bullet")
            /\ \A k \in DOMAIN posts : ~HasLine(posts[k].content, "bullet"))
    /\ [][response.transport \in TransportErrors =>
            requests' = requests /\ response' = response]_vars

\* the second of three read requests failed after the first gave a record,
\* and the run went on to post
C3_Witness ==
    /\ response.transport \in TransportErrors
    /\ Len(MINER_ADDRESSES) = 3
    /\ Len(requests) = 2
    /\ Len(earnings) = 1
    /\ pc = "DONE"

\* C4 as stated: the process ends with a non-zero code only if a webhook POST
\* was attempted and failed.
C4_Original ==
    (Ended /\ exit_code # <<0>>) =>
        /\ posts # <<>>
        /\ posts[Len(posts)].outcome # "ok"

\* the configuration is refused before run is called: int() of line 38
\* raised, or __init__ found no webhook URL, no credential or no account
ConfigRefused ==
    \/ LOOKBACK_DAYS = <<>>
    \/ ~StrTruthy(DISCORD_WEBHOOK_URL)
    \/ ~StrTruthy(TAOSTATS_API_KEY)
    \/ MINER_ADDRESSES = <<>>

\* C4, amended: the process ends with a non-zero code only if a webhook POST
\* was attempted and failed, or the configuration was refused; a refused
\* configuration (non-integer lookback, missing or empty webhook URL, missing
\* or empty credential, empty account list) ends the process with code 1
\* before any read request and without any POST.
C4_NonZeroExit ==
    /\ (Ended /\ exit_code # <<0>>) =>
          \/ posts # <<>> /\ posts[Len(posts)].outcome # "ok"
          \/ ConfigRefused
    /\ (ConfigRefused /\ pc # "load") =>
          /\ requests = <<>>
          /\ posts = <<>>
          /\ pc \in {"main", "CRASHED"}
          /\ Ended => exit_code = <<1>>
    /\ pc = "CRASHED" => ConfigRefused

\* the process ended with code 1 for a missing credential alone, with no
\* notification attempt
C4_Witness ==
    /\ pc = "CRASHED"
    /\ exit_code = <<1>>
    /\ StrTruthy(DISCORD_WEBHOOK_URL)
    /\ ~StrTruthy(TAOSTATS_API_KEY)
    /\ MINER_ADDRESSES # <<>>
    /\ LOOKBACK_DAYS # <<>>
    /\ posts = <<>>

\* C5: a read request answered by a JSON object without data rows (data
\* missing, null or empty), or whose first row has no income or an income
\* that is no number, adds no record and raises nothing, and the loop goes on
\* to the next position; a fetch in which nothing was raised has queried
\* every account.
C5_SkipsWithoutData ==
    /\ [][(ReadStep /\ SkipShape(response')) =>
            /\ earnings' = earnings
            /\ exc' = NoExc
            /\ pc' = "FETCHING"
            /\ idx' = idx + 1
            /\ handled' = Append(handled, "continue")]_vars
    /\ []((pc \in {"FORMATTING", "NOTIFYING", "DONE"} /\ ~FetchRaised) =>
            requests = MINER_ADDRESSES)

\* the first account's income was no number, the second account was queried
\* and gave a record
C5_Witness ==
    /\ Len(requests) = 2
    /\ handled = <<"continue", "append">>
    /\ Len(earnings) = 1
    /\ earnings[1].coldkey = MINER_ADDRESSES[2]


\* C6 as stated: an account whose read request arrived with a body that is no
\* JSON, no JSON object, or whose data array starts with something that is no
\* object is omitted and fetch_earnings does not raise.
C6_Original ==
    InvalidBody(response) =>
        /\ handled[Len(handled)] = "continue"
        /\ exc = NoExc

\* C6, amended: such a body makes fetch_earnings raise as a whole
\* (JSONDecodeError for a body that is no JSON, AttributeError otherwise):
\* nothing is returned to run, no later account is queried, and what run
\* posts is the fallback message, not a report of the other accounts.
C6_InvalidBodyFailsFetch ==
    InvalidBody(response) =>
        /\ handled[Len(handled)] = "raise"
        /\ exc.type = (IF response.body.json THEN "AttributeError" ELSE "JSONDecodeError")
        /\ run_earnings = <<>>
        /\ pc \in {"FALLBACK", "NOTIFYING", "DONE"}
        /\ Len(requests) = idx
        /\ \A k \in DOMAIN posts :
             /\ IsFallback(posts[k].content)
             /\ posts[k].content[2].text = ExcStr(exc)

\* the first account gave a record, the second answered with JSON that is
\* no object, the third was never queried, and the fallback was posted
C6_Witness ==
    /\ InvalidBody(response)
    /\ response.body.json
    /\ Len(MINER_ADDRESSES) = 3
    /\ Len(requests) = 2
    /\ Len(earnings) = 1
    /\ posts # <<>>

\* C7: when fetch_earnings returns, every account was queried once, in list
\* order, and the coldkeys of the returned records are the account list with
\* the skipped positions removed, in order and without deduplication; there
\* are never more records than accounts.
C7_OrderPreserved ==
    /\ Len(earnings) <= Len(MINER_ADDRESSES)
    /\ run_earnings # <<>> =>
         LET es == run_earnings[1] IN
         /\ requests = MINER_ADDRESSES
         /\ Len(handled) = Len(MINER_ADDRESSES)
         /\ \A i \in DOMAIN handled : handled[i] \in {"append", "continue"}
         /\ [k \in 1..Len(es) |-> es[k].coldkey]
              = KeepAt(MINER_ADDRESSES,
                       [i \in 1..Len(handled) |-> handled[i] = "append"])
         /\ Len(es) <= Len(MINER_ADDRESSES)

\* the same account listed first and last, the one between skipped: two
\* records of that account are returned
C7_Witness ==
    /\ run_earnings # <<>>
    /\ Len(MINER_ADDRESSES) = 3
    /\ MINER_ADDRESSES[1] = MINER_ADDRESSES[3]
    /\ MINER_ADDRESSES[1] # MINER_ADDRESSES[2]
    /\ handled = <<"append", "continue", "append">>
    /\ Len(run_earnings[1]) = 2

\* C8: the message built from a non-empty list of records has, after header,
\* network line and a blank line, one bulleted line per record in record
\* order, showing the record's coldkey and its amount to 6 decimal places,
\* then a blank line and one total line showing the sum of all amounts to 6
\* decimal places and the number of records; it has no other bulleted or
\* total line.
C8_ReportLines ==
    (pc \in {"NOTIFYING", "DONE"} /\ run_earnings # <<>> /\ run_earnings[1] # <<>>) =>
        LET es == run_earnings[1]
            n == Len(es)
        IN /\ Len(message) = n + 5
           /\ message[1].line = "header"
           /\ message[2].line = "network"
           /\ message[3].line = "blank"
           /\ \A k \in 1..n :
                /\ message[3 + k].line = "bullet"
                /\ message[3 + k].coldkey = es[k].coldkey
                /\ ShowsTo6(message[3 + k].amount, es[k].amount_tao)
           /\ message[n + 4].line = "blank"
           /\ message[n + 5].line = "total"
           /\ ShowsTo6(message[n + 5].amount, SumAmounts(es))
           /\ message[n + 5].count = n

\* a report of two records whose displayed amounts add up to less than the
\* displayed total
C8_Witness ==
    /\ pc \in {"NOTIFYING", "DONE"}
    /\ run_earnings # <<>>
    /\ Len(run_earnings[1]) = 2
    /\ HasLine(message, "total")
    /\ message[4].amount.frac + message[5].amount.frac < message[7].amount.frac

\* C9: the message built from an empty list of records is the header line,
\* the network line and the "no data" sentence, with no bulleted line and no
\* total line; when every account was skipped this report, not the fallback
\* message, is what is posted.
C9_NoDataReport ==
    (pc \in {"NOTIFYING", "DONE"} /\ run_earnings = <<<<>>>>) =>
        /\ Len(message) = 3
        /\ message[1].line = "header"
        /\ message[2].line = "network"
        /\ message[3].line = "nodata"
        /\ ~HasLine(message, "bullet")
        /\ ~HasLine(message, "total")
        /\ \A i \in DOMAIN handled : handled[i] = "continue"
        /\ pc = "DONE" =>
             /\ Len(posts) = 1
             /\ posts[1].content = message
             /\ ~IsFallback(posts[1].content)

\* three accounts, all skipped, and the "no data" report posted
C9_Witness ==
    /\ pc = "DONE"
    /\ run_earnings = <<<<>>>>
    /\ Len(MINER_ADDRESSES) = 3
    /\ handled = <<"continue", "continue", "continue">>
    /\ HasLine(posts[1].content, "nodata")

\* the steps run can take
RunEdges ==
    {<<"FETCHING", "FORMATTING">>, <<"FETCHING", "FALLBACK">>,
     <<"FORMATTING", "NOTIFYING">>, <<"FALLBACK", "NOTIFYING">>,
     <<"NOTIFYING", "DONE">>}

\* C10: run goes FETCHING, then FORMATTING or the fallback step, then
\* NOTIFYING, then DONE, and always gets to DONE; the read requests are
\* issued one at a time, in list order, one per position at most, all
\* before the POST; there is exactly one POST per run.
C10_OrderAndTermination ==
    /\ [][(pc \in {"FETCHING", "FORMATTING", "FALLBACK", "NOTIFYING", "DONE"}
           /\ pc' # pc) => <<pc, pc'>> \in RunEdges]_vars
    /\ [][/\ Len(requests') <= Len(requests) + 1
          /\ Len(posts') <= Len(posts) + 1
          /\ Len(requests') > Len(requests) => (pc = "FETCHING" /\ posts = <<>>)
          /\ Len(posts') > Len(posts) => (pc = "NOTIFYING" /\ pc' = "DONE")]_vars
    /\ [](/\ Len(requests) <= Len(MINER_ADDRESSES)
          /\ requests = SubSeq(MINER_ADDRESSES, 1, Len(requests))
          /\ Len(posts) <= 1
          /\ pc = "DONE" <=> Len(posts) = 1)
    /\ (pc = "FETCHING") ~> (pc = "DONE")

\* a run that queried three accounts, failed to deliver, and is done
C10_Witness ==
    /\ pc = "DONE"
    /\ Len(requests) = 3
    /\ Len(posts) = 1
    /\ posts[1].outcome # "ok"

=============================================================================
